---- MODULE Spec2Model ----
(***************************************************************************)
(* The request pipeline of bbj's server.py: the api_method wrapper (body   *)
(* decoding, identity resolution from the User/Auth headers, handler       *)
(* dispatch, the error envelopes, the per-request sqlite connection), the  *)
(* helpers validate and no_anon_hook, the endpoints of class API, and      *)
(* run(), which binds the db.anon singleton before the server starts.      *)
(*                                                                         *)
(* src/db.py, src/schema.py and src/exceptions.py are imported by          *)
(* server.py but are not part of the sources at hand: the definitions      *)
(* that stand for them follow the specification's description of the      *)
(* collaborators and say so where they are defined.                        *)
(***************************************************************************)
EXTENDS Integers, Sequences, FiniteSets, TLC

\* ------------------------------------------------------------------ bounds
\* cherrypy worker threads serving requests side by side
NumWorkers == 2
\* correlation ids uuid1() hands out before the model stops admitting requests
MaxIncidents == 1
\* messages the board holds before the model stops admitting new ones
MaxPosts == 2

Workers == 1 .. NumWorkers

\* ------------------------------------------------------------ Python values
\* Every value is a record tagged by t.  A str is its case-folded text and the
\* set of positions that are upper-case letters, so that str.lower() is a
\* function that really changes the value.
None == [t |-> "None"]
Bool(b) == [t |-> "bool", b |-> b]
Num(n) == [t |-> "int", n |-> n]
Str(text, caps) == [t |-> "str", text |-> text, caps |-> caps]
S(text) == Str(text, {})
List(items) == [t |-> "list", items |-> items]
\* a dict is its items in insertion order, the keys pairwise distinct
Dict(items) == [t |-> "dict", items |-> items]

\* `x = value; ...`: the value is computed once and the rest reads it
Bind(value, Rest(_)) == CHOOSE y \in {Rest(x) : x \in {value}} : TRUE

\* str.lower()
lower(s) == [s EXCEPT !.caps = {}]

\* Python truthiness: `if body`, `not json`, `username and not auth`
Truthy(v) ==
    CASE v.t = "None" -> FALSE
      [] v.t = "bool" -> v.b
      [] v.t = "int" -> v.n # 0
      [] v.t = "str" -> v.text # ""
      [] v.t = "list" -> Len(v.items) > 0
      [] v.t = "dict" -> Len(v.items) > 0
      [] OTHER -> TRUE

isinstance_dict(v) == v.t = "dict"

\* dict.keys()
Keys(d) == {d.items[i][1] : i \in DOMAIN d.items}
\* d[k] for a key that is there; d.get(k) is None for one that is not
Lookup(d, k) == (CHOOSE i \in DOMAIN d.items : d.items[i][1] = k)
Get(d, k) == IF k \in Keys(d) THEN d.items[Lookup(d, k)][2] ELSE None
\* d[k] = v: a known key keeps its place and takes the new value
SetItem(d, k, v) ==
    IF k \in Keys(d)
    THEN Dict([d.items EXCEPT ![Lookup(d, k)] = <<k, v>>])
    ELSE Dict(Append(d.items, <<k, v>>))

\* ", ".join(args)
Join(args) == [t |-> "joined", sep |-> ", ", parts |-> args]
\* a format string with the values put into it
Desc(msg, params) == [t |-> "text", msg |-> msg, params |-> params]

\* ------------------------------------------------------- src/exceptions.py
\* An exception: its class, the envelope kind its class or constructor fixes
\* (BBJException(5, ...) gives the number; the two subclasses fix their own in
\* src/exceptions.py, written here by the class name), its description and
\* its repr().
Exc(cls, code, description) ==
    [t |-> "exc", cls |-> cls, code |-> code, description |-> description]
BBJException(code, description) == Exc("BBJException", code, description)
BBJParameterError(description) ==
    Exc("BBJParameterError", "BBJParameterError", description)
BBJUserError(description) == Exc("BBJUserError", "BBJUserError", description)
\* an exception of a class outside the BBJException family
PyError(cls, description) == Exc(cls, "", description)

BBJClasses == {"BBJException", "BBJParameterError", "BBJUserError"}
IsBBJException(e) == e.cls \in BBJClasses
IsJSONDecodeError(e) == e.cls = "JSONDecodeError"
\* the builtin classes that derive from Exception (KeyboardInterrupt and
\* SystemExit do not)
IsException(e) == e.cls \notin {"KeyboardInterrupt", "SystemExit"}

\* repr(e) and str(e)
repr(e) == [t |-> "repr", cls |-> e.cls, of |-> e.description]
str(e) == e.description

\* ------------------------------------------------------------ src/schema.py
\* schema.error(code, description) and schema.response(value, usermap): the
\* two envelopes of the specification's section 6
schema_error(code, description) ==
    [t |-> "envelope", error |-> [code |-> code, description |-> description]]
schema_response(value, usermap) ==
    [t |-> "envelope", error |-> None, data |-> value, users |-> usermap]
\* BBJException.schema
exc_schema(e) == schema_error(e.code, e.description)
\* json.dumps(response): the one serialized object handed to the transport
json_dumps(response) == [t |-> "json", of |-> response]

IsErrorEnvelope(r) == r.t = "envelope" /\ r.error # None
IsSuccessEnvelope(r) == r.t = "envelope" /\ r.error = None
\* ---------------------------------------------------------------- src/db.py
\* The persistence collaborator, after the specification's data model: the
\* users table is the rows in registration order, the board is the threads in
\* creation order.  A row read from the table is a new object each time.
UserIdPool == <<S("id_1"), S("id_2"), S("id_3")>>
ThreadIdPool == <<S("t_1"), S("t_2"), S("t_3"), S("t_4")>>
\* the hash of "anon" that run() registers the anonymous user with
AnonHash == S("5430eeed859cad61d925097ec4f532461ccf1ab6b9802b09a313be1478a4d614")

Row(id, name, hash, quip, admin) ==
    [t |-> "user", user_id |-> id, user_name |-> name, auth_hash |-> hash,
     quip |-> quip, is_admin |-> admin]
\* a user object: the row's fields and which object it is
Object(row, obj) ==
    [t |-> "user", obj |-> obj, user_id |-> row.user_id,
     user_name |-> row.user_name, auth_hash |-> row.auth_hash,
     quip |-> row.quip, is_admin |-> row.is_admin]
RowOf(user) ==
    Row(user.user_id, user.user_name, user.auth_hash, user.quip, user.is_admin)
\* `a is b`: the same object; an object just built is no object seen before
PyIs(a, b) == a.obj = b.obj /\ a.obj # "new"

Hits(U, name_or_id) ==
    {i \in DOMAIN U : U[i].user_name = name_or_id \/ U[i].user_id = name_or_id}
First(set) == CHOOSE i \in set : \A j \in set : i <= j
\* db.user_resolve(connection, name_or_id): the user object, or False
user_resolve(U, name_or_id) ==
    IF Hits(U, name_or_id) = {} THEN Bool(FALSE)
    ELSE Object(U[First(Hits(U, name_or_id))], "new")
\* the externally-safe record: no credential hash
user_externalize(user) ==
    [t |-> "public_user", user_id |-> user.user_id,
     user_name |-> user.user_name, quip |-> user.quip,
     is_admin |-> user.is_admin]

\* what a collaborator call gives back: an exception or a value, and the tables
DbRaise(e, U, T) == [exc |-> e, value |-> None, users |-> U, threads |-> T]
DbReturn(v, U, T) == [exc |-> None, value |-> v, users |-> U, threads |-> T]

\* db.user_resolve(connection, name_or_id, externalize, return_false) as the
\* handlers call it: with return_false=False an unknown user is an error
db_user_resolve(U, T, name_or_id, externalize, return_false) ==
    IF Hits(U, name_or_id) = {}
    THEN (IF return_false THEN DbReturn(Bool(FALSE), U, T)
          ELSE DbRaise(BBJParameterError(
                    Desc("Requested user element ({}) is not registered",
                         <<name_or_id>>)), U, T))
    ELSE DbReturn(IF externalize
                  THEN user_externalize(user_resolve(U, name_or_id))
                  ELSE user_resolve(U, name_or_id), U, T)

\* db.user_register(connection, user_name, auth_hash)
db_user_register(U, T, user_name, auth_hash) ==
    IF Hits(U, user_name) # {}
    THEN DbRaise(BBJUserError(Desc("Username already registered", <<>>)), U, T)
    ELSE LET row == Row(UserIdPool[Len(U) + 1], user_name, auth_hash,
                        S(""), FALSE)
         IN  DbReturn(Object(row, "new"), Append(U, row), T)

\* db.user_update(connection, user_object, parameters): the given ones of
\* user_name, auth_hash and quip replace the stored ones (bio and color are not
\* in the model)
Updated(row, parameters) ==
    [row EXCEPT
        !.user_name = IF Truthy(Get(parameters, S("user_name")))
                      THEN Get(parameters, S("user_name")) ELSE @,
        !.auth_hash = IF Truthy(Get(parameters, S("auth_hash")))
                      THEN Get(parameters, S("auth_hash")) ELSE @,
        !.quip = IF Truthy(Get(parameters, S("quip")))
                 THEN Get(parameters, S("quip")) ELSE @]
db_user_update(U, T, user_object, parameters) ==
    IF ~isinstance_dict(parameters)
    THEN DbRaise(PyError("AttributeError", Desc("get", <<>>)), U, T)
    ELSE LET i == First(Hits(U, user_object.user_id))
             U2 == [U EXCEPT ![i] = Updated(U[i], parameters)]
         IN  DbReturn(user_resolve(U2, user_object.user_id), U2, T)

\* a message carries the time it was created at; the time a message stays
\* editable for, in the same unit
EditWindow == 1
Message(author, body, send_raw, created) ==
    [t |-> "message", author |-> author, body |-> body, send_raw |-> send_raw,
     created |-> created]
Thread(id, author, title, messages, time) ==
    [t |-> "thread", thread_id |-> id, author |-> author, title |-> title,
     pinned |-> FALSE, last_mod |-> time, last_author |-> author,
     messages |-> messages]
ThreadHits(T, thread_id) == {i \in DOMAIN T : T[i].thread_id = thread_id}

\* db.thread_create(connection, author_id, body, title, send_raw)
db_thread_create(U, T, time, author_id, body, title, send_raw) ==
    LET thread == Thread(ThreadIdPool[Len(T) + 1], author_id, title,
                         <<Message(author_id, body, Truthy(send_raw), time)>>,
                         time)
    IN  DbReturn(thread, U, Append(T, thread))

\* db.thread_reply(connection, author_id, thread_id, body, send_raw)
db_thread_reply(U, T, time, author_id, thread_id, body, send_raw) ==
    IF ThreadHits(T, thread_id) = {}
    THEN DbRaise(BBJParameterError(Desc("Thread does not exist", <<>>)), U, T)
    ELSE LET i == First(ThreadHits(T, thread_id))
             message == Message(author_id, body, Truthy(send_raw), time)
         IN  DbReturn(message, U,
                 [T EXCEPT ![i].messages = Append(@, message),
                           ![i].last_author = author_id,
                           ![i].last_mod = time])
\* The message-mutation rule of the specification's section 4.4 for a principal
\* that reached the collaborator: the thread and the post must exist, an
\* admin may touch any message, anyone else only a message of their own that
\* is no older than the editable window.
db_message_edit_query(U, T, time, author_id, thread_id, post_id) ==
    IF ThreadHits(T, thread_id) = {}
    THEN DbRaise(BBJParameterError(Desc("Thread does not exist", <<>>)), U, T)
    ELSE IF post_id.t # "int"
    THEN DbRaise(PyError("TypeError", Desc("list indices must be integers",
                                           <<>>)), U, T)
    ELSE LET thread == T[First(ThreadHits(T, thread_id))]
             user == user_resolve(U, author_id)
         IN  IF post_id.n + 1 \notin DOMAIN thread.messages
             THEN DbRaise(BBJParameterError(
                     Desc("post_id out of bounds for requested thread", <<>>)),
                     U, T)
             ELSE IF ~user.is_admin
                     /\ thread.messages[post_id.n + 1].author # user.user_id
             THEN DbRaise(BBJUserError(
                     Desc("non-admin attempt to edit another user's message",
                          <<>>)), U, T)
             ELSE IF ~user.is_admin
                     /\ time - thread.messages[post_id.n + 1].created
                            > EditWindow
             THEN DbRaise(BBJUserError(
                     Desc("message is too old to edit (older than 24hrs)",
                          <<>>)), U, T)
             ELSE DbReturn(thread.messages[post_id.n + 1], U, T)

\* db.message_edit_commit(connection, author_id, thread_id, post_id, new_body,
\* send_raw): the checked message takes the new body, when one is given, and
\* the raw-formatting flag
db_message_edit_commit(U, T, time, author_id, thread_id, post_id, new_body, send_raw) ==
    Bind(db_message_edit_query(U, T, time, author_id, thread_id, post_id),
         LAMBDA query :
            IF query.exc # None THEN query
            ELSE Bind([query.value EXCEPT
                        !.body = IF new_body = None THEN @ ELSE new_body,
                        !.send_raw = Truthy(send_raw)],
                      LAMBDA message :
                        DbReturn(message, U,
                            [T EXCEPT ![First(ThreadHits(T, thread_id))]
                                        .messages[post_id.n + 1] = message])))

Without(seq, k) ==
    [j \in 1 .. Len(seq) - 1 |-> IF j < k THEN seq[j] ELSE seq[j + 1]]
\* db.message_delete(connection, author_id, thread_id, post_id): the root
\* message takes its thread with it
db_message_delete(U, T, time, author_id, thread_id, post_id) ==
    Bind(db_message_edit_query(U, T, time, author_id, thread_id, post_id),
         LAMBDA query :
            IF query.exc # None THEN query
            ELSE IF post_id.n = 0
            THEN DbReturn(Bool(TRUE), U,
                          Without(T, First(ThreadHits(T, thread_id))))
            ELSE DbReturn(Bool(TRUE), U,
                    [T EXCEPT ![First(ThreadHits(T, thread_id))].messages =
                                Without(@, post_id.n + 1)]))

\* db.thread_index(connection, include_op): the threads, the one with the most
\* recent activity first, each without its messages or with the root message
\* alone
Newest(T) ==
    CHOOSE i \in DOMAIN T :
        \A j \in DOMAIN T :
            \/ T[j].last_mod < T[i].last_mod
            \/ (T[j].last_mod = T[i].last_mod /\ i <= j)
RECURSIVE ByActivity(_)
ByActivity(T) ==
    IF T = <<>> THEN <<>>
    ELSE <<T[Newest(T)]>> \o ByActivity(Without(T, Newest(T)))
db_thread_index(U, T, include_op) ==
    DbReturn(List([i \in DOMAIN T |->
                    [ByActivity(T)[i] EXCEPT
                        !.messages = IF Truthy(include_op) THEN <<@[1]>>
                                     ELSE <<>>]]), U, T)

\* db.message_feed(connection, time): the messages created after `time`, the
\* newest first, each with the id of its thread, and the threads they are in
FeedMessage(message, thread_id) ==
    [t |-> "message", author |-> message.author, body |-> message.body,
     send_raw |-> message.send_raw, created |-> message.created,
     thread_id |-> thread_id]
RECURSIVE AllMessages(_)
AllMessages(T) ==
    IF T = <<>> THEN <<>>
    ELSE [i \in DOMAIN Head(T).messages |->
            FeedMessage(Head(T).messages[i], Head(T).thread_id)]
         \o AllMessages(Tail(T))
Latest(messages) ==
    CHOOSE i \in DOMAIN messages :
        \A j \in DOMAIN messages :
            \/ messages[j].created < messages[i].created
            \/ (messages[j].created = messages[i].created /\ i <= j)
RECURSIVE NewestFirst(_)
NewestFirst(messages) ==
    IF messages = <<>> THEN <<>>
    ELSE <<messages[Latest(messages)]>>
         \o NewestFirst(Without(messages, Latest(messages)))
Since(messages, time) ==
    SelectSeq(messages, LAMBDA m : time.t = "int" /\ m.created > time.n)
Feed(threads, messages) ==
    [t |-> "feed", threads |-> threads, messages |-> messages]
db_message_feed(U, T, time) ==
    Bind(NewestFirst(Since(AllMessages(T), time)), LAMBDA messages :
        DbReturn(Feed(SelectSeq(T, LAMBDA thread :
                        \E i \in DOMAIN messages :
                            messages[i].thread_id = thread.thread_id),
                      messages), U, T))

\* db.thread_get(connection, thread_id, op_only): the thread with its
\* messages, or with its root message alone
db_thread_get(U, T, thread_id, op_only) ==
    IF ThreadHits(T, thread_id) = {}
    THEN DbRaise(BBJParameterError(Desc("Thread does not exist", <<>>)), U, T)
    ELSE DbReturn([T[First(ThreadHits(T, thread_id))] EXCEPT
                    !.messages = IF Truthy(op_only) THEN <<@[1]>> ELSE @],
                  U, T)

\* db.set_thread_pin(connection, thread_id, pin_bool)
db_set_thread_pin(U, T, thread_id, pin_bool) ==
    IF ThreadHits(T, thread_id) = {}
    THEN DbRaise(BBJParameterError(Desc("Thread does not exist", <<>>)), U, T)
    ELSE DbReturn(pin_bool, U,
            [T EXCEPT ![First(ThreadHits(T, thread_id))].pinned =
                        Truthy(pin_bool)])

\* db.validate(keys_and_values): nothing when the values pass the rules of the
\* fields; a rejection is an exception of the BBJException family, raised by
\* the persistence layer (Persist)
db_validate_fields(U, T, keys_and_values) == DbReturn(None, U, T)

\* -------------------------------------------------------- src/formatting.py
\* formatting.apply_formatting(messages, formatting.sequential_expressions):
\* the body of every message that is not sent raw is rendered
Rendered(body) == [t |-> "rendered", of |-> body]
apply_formatting(messages) ==
    [i \in DOMAIN messages |->
        IF messages[i].send_raw THEN messages[i]
        ELSE [messages[i] EXCEPT !.body = Rendered(@)]]

\* ------------------------------------------------------------ src/server.py
\* What a handler sees besides its arguments: the tables behind its
\* connection, db.anon, app_config["allow_anon"], the usermap slot of its
\* worker thread, the exception (or None) the persistence layer raises when
\* the handler calls it, and the time of day.
Context(U, T, anon_, allow, slot, collab, time) ==
    [users |-> U, threads |-> T, anon |-> anon_, allow_anon |-> allow,
     usermap |-> slot, collab |-> collab, now |-> time]

\* How a handler ends: the exception it raised or the value it returned, the
\* usermap slot and the tables as it left them, and the persistence calls it
\* made, in order.
Raised(c, e, calls) ==
    [exc |-> e, value |-> None, usermap |-> c.usermap, users |-> c.users,
     threads |-> c.threads, calls |-> calls]
Returned(v, slot, U, T, calls) ==
    [exc |-> None, value |-> v, usermap |-> slot, users |-> U, threads |-> T,
     calls |-> calls]
Call(op, by) == [op |-> op, by |-> by]

NoUsermap == [id \in {} |-> None]

\* create_usermap(connection, obj, index)
UserSet(obj, index) ==
    {obj[i].author : i \in DOMAIN obj}
        \cup (IF index THEN {obj[i].last_author : i \in DOMAIN obj} ELSE {})
\* the ids among them that db.user_resolve finds no user for
Unknown(U, user_set) == {user_id \in user_set : Hits(U, user_id) = {}}
\* The mapping, or the exception the lookup of an id raises: every id is
\* looked up with return_false=False.
create_usermap(U, obj, index) ==
    Bind(UserSet(obj, index), LAMBDA user_set :
        IF Unknown(U, user_set) # {}
        THEN [exc |-> db_user_resolve(U, <<>>,
                          CHOOSE user_id \in Unknown(U, user_set) : TRUE,
                          TRUE, FALSE).exc,
              value |-> None]
        ELSE [exc |-> None,
              value |-> [user_id \in user_set |->
                          db_user_resolve(U, <<>>, user_id, TRUE, FALSE).value]])
\* cherrypy.thread_data.usermap = create_usermap(...), after the persistence
\* call `done`: the slot is bound, or the handler ends with what the lookup
\* raised
WithUsermap(done, made) ==
    IF made.exc # None THEN [done EXCEPT !.exc = made.exc, !.value = None]
    ELSE [done EXCEPT !.usermap = made.value]

\* do_formatting(format_spec, messages): the messages as the call leaves them,
\* or the exception it raises
do_formatting(format_spec, messages) ==
    IF ~Truthy(format_spec) THEN [exc |-> None, value |-> messages]
    ELSE IF format_spec = S("sequential")
    THEN [exc |-> None, value |-> apply_formatting(messages)]
    ELSE [exc |-> BBJParameterError(S("invalid formatter specification")),
          value |-> None]

\* validate(json, args)
Absent(json, args) == {i \in DOMAIN args : args[i] \notin Keys(json)}
\* validate without the `if not json` branch of lines 153-156
validate_NoEmptyTest(json, args) ==
    IF args = <<>> THEN None
    ELSE IF ~isinstance_dict(json)
    THEN PyError("AttributeError", Desc("object has no attribute 'keys'", <<>>))
    ELSE IF Absent(json, args) # {}
    THEN BBJParameterError(Desc(
            "Required parameter {} is absent from the request. This method requires the following arguments: {}",
            <<args[First(Absent(json, args))], Join(args)>>))
    ELSE None
validate(json, args) ==
    IF ~Truthy(json)
    THEN BBJParameterError(Desc(
            "JSON input is empty. This method requires the following arguments: {}",
            <<Join(args)>>))
    ELSE IF args = <<>> THEN None
    ELSE IF ~isinstance_dict(json)
    THEN PyError("AttributeError", Desc("object has no attribute 'keys'", <<>>))
    ELSE IF Absent(json, args) # {}
    THEN BBJParameterError(Desc(
            "Required parameter {} is absent from the request. This method requires the following arguments: {}",
            <<args[First(Absent(json, args))], Join(args)>>))
    ELSE None

\* no_anon_hook(user, message=None, user_error=True)
AnonDisabled == S("Anonymous participation has been disabled on this instance.")
no_anon_hook(user, message, user_error, c) ==
    IF ~PyIs(user, c.anon) THEN None
    ELSE IF Truthy(message)
    THEN (IF user_error THEN BBJUserError(message)
          ELSE BBJParameterError(message))
    ELSE IF ~c.allow_anon
    THEN (IF user_error THEN BBJUserError(AnonDisabled)
          ELSE BBJParameterError(AnonDisabled))
    ELSE None

\* A call of the persistence layer by a handler: it raises what the layer
\* raises (c.collab, when the layer itself fails, else what the operation
\* raises), or returns what the operation returns.
Persist(c, call, operation) ==
    IF c.collab # None THEN Raised(c, c.collab, <<call>>)
    ELSE Bind(operation, LAMBDA res :
            IF res.exc # None THEN Raised(c, res.exc, <<call>>)
            ELSE Returned(res.value, c.usermap, res.users, res.threads,
                          <<call>>))
\* the hook and the validation every handler starts with, in that order
Guarded(c, hook, check, rest) ==
    IF hook # None THEN Raised(c, hook, <<>>)
    ELSE IF check # None THEN Raised(c, check, <<>>)
    ELSE rest

\* API.user_register
user_register(args, user, c) ==
    Guarded(c, None, validate(args, <<S("user_name"), S("auth_hash")>>),
        Persist(c, Call("user_register", user.user_id),
            db_user_register(c.users, c.threads, Get(args, S("user_name")),
                             Get(args, S("auth_hash")))))

\* API.user_update
user_update(args, user, c) ==
    Guarded(c, no_anon_hook(user, S("Anons cannot modify their account."),
                            TRUE, c),
        validate(args, <<>>),
        Persist(c, Call("user_update", user.user_id),
            db_user_update(c.users, c.threads, user, args)))

\* API.get_me
get_me(args, user, c) == Returned(user, c.usermap, c.users, c.threads, <<>>)

\* the handler goes on with what the persistence call returned
Then(done, value(_)) ==
    IF done.exc # None THEN done ELSE [done EXCEPT !.value = value(done.value)]

\* API.user_get
user_get(args, user, c) ==
    Guarded(c, None, validate(args, <<S("user")>>),
        Persist(c, Call("user_resolve", user.user_id),
            db_user_resolve(c.users, c.threads, Get(args, S("user")),
                            TRUE, FALSE)))

\* API.user_is_registered
user_is_registered(args, user, c) ==
    Guarded(c, None, validate(args, <<S("target_user")>>),
        Then(Persist(c, Call("user_resolve", user.user_id),
                db_user_resolve(c.users, c.threads,
                                Get(args, S("target_user")), FALSE, TRUE)),
             LAMBDA found : Bool(Truthy(found))))

\* API.check_auth
check_auth(args, user, c) ==
    Guarded(c, None, validate(args, <<S("target_user"), S("target_hash")>>),
        Bind(Persist(c, Call("user_resolve", user.user_id),
                db_user_resolve(c.users, c.threads,
                                Get(args, S("target_user")), FALSE, FALSE)),
             LAMBDA done :
                IF done.exc = None /\ Get(args, S("target_hash")).t # "str"
                THEN Raised(c, PyError("AttributeError",
                                Desc("object has no attribute 'lower'", <<>>)),
                            done.calls)
                ELSE Then(done, LAMBDA found :
                        Bool(lower(Get(args, S("target_hash")))
                                = lower(found.auth_hash)))))

\* API.is_admin
is_admin(args, user, c) ==
    Guarded(c, None, validate(args, <<S("target_user")>>),
        Then(Persist(c, Call("user_resolve", user.user_id),
                db_user_resolve(c.users, c.threads,
                                Get(args, S("target_user")), FALSE, FALSE)),
             LAMBDA found : Bool(found.is_admin)))

\* API.thread_create
thread_create(args, user, c) ==
    Guarded(c, no_anon_hook(user, None, TRUE, c),
        validate(args, <<S("body"), S("title")>>),
        Bind(Persist(c, Call("thread_create", user.user_id),
                db_thread_create(c.users, c.threads, c.now, user.user_id,
                    Get(args, S("body")), Get(args, S("title")),
                    Get(args, S("send_raw")))),
             LAMBDA done :
                IF done.exc # None THEN done
                ELSE WithUsermap(done,
                        create_usermap(done.users, done.value.messages,
                                       FALSE))))

\* API.thread_reply
thread_reply(args, user, c) ==
    Guarded(c, no_anon_hook(user, None, TRUE, c),
        validate(args, <<S("thread_id"), S("body")>>),
        Persist(c, Call("thread_reply", user.user_id),
            db_thread_reply(c.users, c.threads, c.now, user.user_id,
                Get(args, S("thread_id")), Get(args, S("body")),
                Get(args, S("send_raw")))))

\* API.edit_post
edit_post(args, user, c) ==
    Guarded(c, no_anon_hook(user, S("Anons cannot edit messages."), TRUE, c),
        validate(args, <<S("body"), S("thread_id"), S("post_id")>>),
        Persist(c, Call("message_edit_commit", user.user_id),
            db_message_edit_commit(c.users, c.threads, c.now, user.user_id,
                Get(args, S("thread_id")), Get(args, S("post_id")),
                Get(args, S("body")), Get(args, S("send_raw")))))

\* API.delete_post
delete_post(args, user, c) ==
    Guarded(c, no_anon_hook(user, S("Anons cannot delete messages."), TRUE, c),
        validate(args, <<S("thread_id"), S("post_id")>>),
        Persist(c, Call("message_delete", user.user_id),
            db_message_delete(c.users, c.threads, c.now, user.user_id,
                Get(args, S("thread_id")), Get(args, S("post_id")))))

\* API.set_post_raw
set_post_raw(args, user, c) ==
    Guarded(c, no_anon_hook(user, S("Anons cannot edit messages."), TRUE, c),
        validate(args, <<S("value"), S("thread_id"), S("post_id")>>),
        Persist(c, Call("message_edit_commit", user.user_id),
            db_message_edit_commit(c.users, c.threads, c.now, user.user_id,
                Get(args, S("thread_id")), Get(args, S("post_id")),
                None, Get(args, S("value")))))

\* API.edit_query
edit_query(args, user, c) ==
    Guarded(c, no_anon_hook(user, S("Anons cannot edit messages."), TRUE, c),
        validate(args, <<S("thread_id"), S("post_id")>>),
        Persist(c, Call("message_edit_query", user.user_id),
            db_message_edit_query(c.users, c.threads, c.now, user.user_id,
                Get(args, S("thread_id")), Get(args, S("post_id")))))

\* API.user_map
user_map(args, user, c) ==
    Bind(Persist(c, Call("execute", user.user_id),
            DbReturn(List([i \in DOMAIN c.users |-> c.users[i].user_id]),
                     c.users, c.threads)),
         LAMBDA done :
            IF done.exc # None THEN done
            ELSE [done EXCEPT !.usermap =
                    [user_id \in {c.users[i].user_id : i \in DOMAIN c.users}
                        |-> db_user_resolve(c.users, c.threads, user_id,
                                            TRUE, FALSE).value]])

\* API.thread_index
thread_index(args, user, c) ==
    Bind(Persist(c, Call("thread_index", user.user_id),
            db_thread_index(c.users, c.threads,
                IF isinstance_dict(args) THEN Get(args, S("include_op"))
                ELSE Bool(FALSE))),
         LAMBDA done :
            IF done.exc # None THEN done
            ELSE WithUsermap(done,
                    create_usermap(done.users, done.value.items, TRUE)))

\* _map.update(create_usermap(threads, True)) and usermap.update(_map): the
\* entries of the first with those of the second put over them
Merged(made, more) ==
    IF made.exc # None THEN made
    ELSE IF more.exc # None THEN more
    ELSE [exc |-> None,
          value |-> [user_id \in DOMAIN made.value \cup DOMAIN more.value |->
                        IF user_id \in DOMAIN more.value
                        THEN more.value[user_id] ELSE made.value[user_id]]]
\* do_formatting(args.get("format"), messages) on the messages of the value
\* the handler is about to return
Formatted(bound, done) ==
    IF bound.exc # None THEN bound
    ELSE IF done.exc # None
    THEN [bound EXCEPT !.exc = done.exc, !.value = None]
    ELSE [bound EXCEPT !.value.messages = done.value]

\* API.message_feed
message_feed(args, user, c) ==
    Guarded(c, None, validate(args, <<S("time")>>),
        Bind(Persist(c, Call("message_feed", user.user_id),
                db_message_feed(c.users, c.threads, Get(args, S("time")))),
             LAMBDA done :
                IF done.exc # None THEN done
                ELSE Formatted(
                        WithUsermap(done,
                            Merged([exc |-> None, value |-> done.usermap],
                                Merged(create_usermap(done.users,
                                            done.value.messages, FALSE),
                                       create_usermap(done.users,
                                            done.value.threads, TRUE)))),
                        do_formatting(Get(args, S("format")),
                                      done.value.messages))))

\* API.thread_load
thread_load(args, user, c) ==
    Guarded(c, None, validate(args, <<S("thread_id")>>),
        Bind(Persist(c, Call("thread_get", user.user_id),
                db_thread_get(c.users, c.threads, Get(args, S("thread_id")),
                              Get(args, S("op_only")))),
             LAMBDA done :
                IF done.exc # None THEN done
                ELSE Formatted(
                        WithUsermap(done,
                            create_usermap(done.users, done.value.messages,
                                           FALSE)),
                        do_formatting(Get(args, S("format")),
                                      done.value.messages))))

\* API.format_message
format_message(args, user, c) ==
    Guarded(c, None, validate(args, <<S("format"), S("body")>>),
        Bind(do_formatting(Get(args, S("format")),
                <<[body |-> Get(args, S("body")), send_raw |-> FALSE]>>),
             LAMBDA done :
                IF done.exc # None THEN Raised(c, done.exc, <<>>)
                ELSE Returned(done.value[1].body, c.usermap, c.users,
                              c.threads, <<>>)))

\* API.set_thread_pin
set_thread_pin(args, user, c) ==
    Guarded(c, None, validate(args, <<S("thread_id"), S("value")>>),
        IF ~user.is_admin
        THEN Raised(c, BBJUserError(S("Only admins can set thread pins")),
                    <<>>)
        ELSE Persist(c, Call("set_thread_pin", user.user_id),
                db_set_thread_pin(c.users, c.threads,
                    Get(args, S("thread_id")), Get(args, S("value")))))

\* the object db_validate answers with
Verdict(bool, description) ==
    Dict(<< <<S("bool"), bool>>, <<S("description"), description>> >>)
\* API.db_validate with the `if args.get("error"): raise` of lines 525-526
\* left out
db_validate_NeverRaises(args, user, c) ==
    Guarded(c, None, validate(args, <<S("key"), S("value")>>),
        Bind(Persist(c, Call("validate", user.user_id),
                db_validate_fields(c.users, c.threads,
                    << <<Get(args, S("key")), Get(args, S("value"))>> >>)),
             LAMBDA done :
                IF done.exc = None
                THEN [done EXCEPT !.value = Verdict(Bool(TRUE), None)]
                ELSE IF IsBBJException(done.exc)
                THEN [done EXCEPT
                        !.exc = None,
                        !.value = Verdict(Bool(FALSE), done.exc.description)]
                ELSE done))
\* API.db_validate
db_validate(args, user, c) ==
    Guarded(c, None, validate(args, <<S("key"), S("value")>>),
        Bind(Persist(c, Call("validate", user.user_id),
                db_validate_fields(c.users, c.threads,
                    << <<Get(args, S("key")), Get(args, S("value"))>> >>)),
             LAMBDA done :
                IF done.exc = None
                THEN [done EXCEPT !.value = Verdict(Bool(TRUE), None)]
                ELSE IF IsBBJException(done.exc)
                        /\ ~Truthy(Get(args, S("error")))
                THEN [done EXCEPT
                        !.exc = None,
                        !.value = Verdict(Bool(FALSE), done.exc.description)]
                ELSE done))

\* the endpoints of accounts and of writing messages
Endpoints ==
    {"user_register", "user_update", "get_me", "user_get",
     "user_is_registered", "check_auth", "is_admin", "thread_create",
     "thread_reply", "edit_post", "delete_post", "set_post_raw", "edit_query"}
\* the endpoints of reading the board, of pins, previews and field rules
ReadEndpoints ==
    {"user_map", "thread_index", "message_feed", "thread_load",
     "format_message", "set_thread_pin", "db_validate"}
\* function(self, body, connection, user)
function(endpoint, args, user, c) ==
    CASE endpoint = "user_register" -> user_register(args, user, c)
      [] endpoint = "user_update" -> user_update(args, user, c)
      [] endpoint = "get_me" -> get_me(args, user, c)
      [] endpoint = "user_get" -> user_get(args, user, c)
      [] endpoint = "user_is_registered" -> user_is_registered(args, user, c)
      [] endpoint = "check_auth" -> check_auth(args, user, c)
      [] endpoint = "is_admin" -> is_admin(args, user, c)
      [] endpoint = "thread_create" -> thread_create(args, user, c)
      [] endpoint = "thread_reply" -> thread_reply(args, user, c)
      [] endpoint = "edit_post" -> edit_post(args, user, c)
      [] endpoint = "delete_post" -> delete_post(args, user, c)
      [] endpoint = "set_post_raw" -> set_post_raw(args, user, c)
      [] endpoint = "edit_query" -> edit_query(args, user, c)
      [] endpoint = "user_map" -> user_map(args, user, c)
      [] endpoint = "thread_index" -> thread_index(args, user, c)
      [] endpoint = "message_feed" -> message_feed(args, user, c)
      [] endpoint = "thread_load" -> thread_load(args, user, c)
      [] endpoint = "format_message" -> format_message(args, user, c)
      [] endpoint = "set_thread_pin" -> set_thread_pin(args, user, c)
      [] endpoint = "db_validate" -> db_validate(args, user, c)
\* ------------------------------------------------------------------- state
VARIABLES
    started,     \* run() has bound db.anon and cherrypy serves requests
    allow_anon,  \* app_config["allow_anon"]
    anon,        \* db.anon
    users,       \* the users table of data.sqlite
    threads,     \* the threads of data.sqlite, each with its messages
    logs,        \* the files under logs/exceptions/
    nextId,      \* how many correlation ids uuid1() has handed out
    open,        \* the sqlite connections that are open
    pc,          \* where each worker is in api_method's wrapper
    req,         \* the request each worker serves (or served last)
    connection,  \* wrapper's local `connection`
    response,    \* wrapper's local `response`
    ret,         \* how the worker's last call of wrapper ended
    calls,       \* the persistence calls the request's handler made
    handled,     \* the principal the request's handler was invoked with
    usermap,     \* cherrypy.thread_data.usermap of each worker thread
    closes,      \* connection.close() calls the request made
    now,         \* time.time(), in editable windows
    args,        \* the body the request's handler was called with
    seen         \* the usermap slot as a request to the board found it

vars ==
    <<started, allow_anon, anon, users, threads, logs, nextId, open, pc, req,
      connection, response, ret, calls, handled, usermap, closes, now, args,
      seen>>

Unbound == [t |-> "unbound"]
Connection(h) == [t |-> "connection", id |-> h]
Handles == 1 .. NumWorkers + 1
ReturnValue(v) == [t |-> "return", value |-> v]
Escaped(e) == [t |-> "raise", exc |-> e]
uuid1(n) == [t |-> "uuid", n |-> n]
Unset == [t |-> "unset"]

\* ------------------------------------------------------------ the request
\* What cherrypy hands the wrapper: the method, the body bytes, the two
\* headers (None when the header is not sent), and what the environment does
\* to this request: the exception sqlite3.connect raises, the one the
\* persistence layer raises under the handler, the one open() raises on the
\* log file (None: it does not fail).
Bytes(kind, value) == [t |-> "bytes", kind |-> kind, value |-> value]
Faults(connect, collab, log) ==
    [connect |-> connect, collab |-> collab, log |-> log]
Request(endpoint, method, body, User, Auth, faults) ==
    [endpoint |-> endpoint, method |-> method, body |-> body, User |-> User,
     Auth |-> Auth, faults |-> faults]

\* str(cherrypy.request.body.read(), "utf8")
Utf8(bytes) ==
    CASE bytes.kind = "empty" -> S("")
      [] bytes.kind = "bad_utf8" ->
            PyError("UnicodeDecodeError", Desc("invalid start byte", <<>>))
      [] OTHER -> [t |-> "jsontext", kind |-> bytes.kind, value |-> bytes.value]
\* json.loads(body)
json_loads(text) ==
    IF text.kind = "bad_json"
    THEN PyError("JSONDecodeError", Desc("Expecting value", <<>>))
    ELSE text.value
\* {key.lower(): value for key, value in body.items()}
RECURSIVE LoweredTo(_, _)
LoweredTo(items, n) ==
    IF n = 0 THEN Dict(<<>>)
    ELSE Bind(LoweredTo(items, n - 1),
              LAMBDA d : SetItem(d, lower(items[n][1]), items[n][2]))
\* line 62 left out: the decoded mapping is handed on as it is
LowerKeys_Verbatim(body) == body
LowerKeys(body) == LoweredTo(body.items, Len(body.items))

\* how the try block ends before the handler is reached
Stopped(e, body, U, T, slot) ==
    [exc |-> e, value |-> None, usermap |-> slot, users |-> U, threads |-> T,
     calls |-> <<>>, handled |-> None, body |-> body]
\* how it ends once the handler was called with `user`
Ran(out, user, body) ==
    [exc |-> out.exc, value |-> out.value, usermap |-> out.usermap,
     users |-> out.users, threads |-> out.threads, calls |-> out.calls,
     handled |-> user, body |-> body]

\* the test of line 70 with its second disjunct dropped
OneWithoutTheOther_UserOnly(username, auth) ==
    Truthy(username) /\ ~Truthy(auth)
\* line 70: (username and not auth) or (auth and not username)
OneWithoutTheOther(username, auth) ==
    (Truthy(username) /\ ~Truthy(auth)) \/ (Truthy(auth) /\ ~Truthy(username))
\* the comparison of line 82 without the two .lower() calls
KeyMatches_CaseSensitive(auth, user) == auth = user.auth_hash
\* line 82, negated: auth.lower() == user["auth_hash"].lower()
KeyMatches(auth, user) == lower(auth) = lower(user.auth_hash)

\* line 88 left out: the slot is as the thread's last request left it
Emptied_Kept(slot) == IF slot = Unset THEN NoUsermap ELSE slot
\* line 88: cherrypy.thread_data.usermap = {}
Emptied(slot) == NoUsermap
\* line 89: value = function(self, body, connection, user), the usermap slot
\* of the thread emptied first
Invoke(r, body, user, U, T, slot) ==
    Bind(Context(U, T, anon, allow_anon, Emptied(slot), r.faults.collab, now),
         LAMBDA c :
            Bind(function(r.endpoint, body, user, c),
                 LAMBDA out : Ran(out, user, body)))

\* lines 64-89: the headers decide the principal, then the handler runs
Dispatch(r, body, U, T, slot) ==
    LET username == r.User
        auth == r.Auth
    IN  IF OneWithoutTheOther(username, auth)
        THEN Stopped(BBJParameterError(
                 S("User or Auth was given without the other.")),
                 body, U, T, slot)
        ELSE IF ~Truthy(username) /\ ~Truthy(auth)
        THEN Invoke(r, body, anon, U, T, slot)
        ELSE Bind(user_resolve(U, username), LAMBDA user :
                IF ~Truthy(user)
                THEN Stopped(BBJUserError(
                         Desc("User %s is not registered", <<username>>)),
                         body, U, T, slot)
                ELSE IF ~KeyMatches(auth, user)
                THEN Stopped(BBJException("5",
                         S("Invalid authorization key for user.")),
                         body, U, T, slot)
                ELSE Invoke(r, body, user, U, T, slot))

\* lines 53-62: the body is read, decoded and its top-level keys lower-cased
Decoded(r, loaded, U, T, slot) ==
    IF loaded.t = "exc" THEN Stopped(loaded, None, U, T, slot)
    ELSE IF isinstance_dict(loaded)
    THEN Bind(LowerKeys(loaded), LAMBDA body : Dispatch(r, body, U, T, slot))
    ELSE Dispatch(r, loaded, U, T, slot)
TryBlock(r, U, T, slot) ==
    Bind(IF r.method = "POST" THEN Utf8(r.body) ELSE S(""),
         LAMBDA read :
            IF read.t = "exc" THEN Stopped(read, None, U, T, slot)
            ELSE IF ~Truthy(read) THEN Dispatch(r, read, U, T, slot)
            ELSE Bind(json_loads(read),
                      LAMBDA loaded : Decoded(r, loaded, U, T, slot)))

\* ------------------------------------------------- the steps of the wrapper
\* The variables the wrapper touches, as one record, so that its steps compose.
Cur ==
    [users |-> users, threads |-> threads, logs |-> logs, nextId |-> nextId,
     open |-> open, pc |-> pc, req |-> req, connection |-> connection,
     response |-> response, ret |-> ret, calls |-> calls,
     handled |-> handled, usermap |-> usermap, closes |-> closes,
     args |-> args]
Becomes(st) ==
    /\ users' = st.users
    /\ threads' = st.threads
    /\ logs' = st.logs
    /\ nextId' = st.nextId
    /\ open' = st.open
    /\ pc' = st.pc
    /\ req' = st.req
    /\ connection' = st.connection
    /\ response' = st.response
    /\ ret' = st.ret
    /\ calls' = st.calls
    /\ handled' = st.handled
    /\ usermap' = st.usermap
    /\ closes' = st.closes
    /\ args' = st.args
    /\ UNCHANGED <<started, allow_anon, anon, now>>

\* lines 47-49: cherrypy calls wrapper on worker w with request r
Enter(st, w, r) ==
    [st EXCEPT !.pc[w] = "try", !.req[w] = r, !.response[w] = None,
               !.connection[w] = Unbound, !.ret[w] = None,
               !.calls[w] = <<>>, !.handled[w] = None, !.closes[w] = 0,
               !.args[w] = None]

\* lines 98-106: the diagnostic record of an unexpected exception; the
\* response is bound before the log file is opened
LogEntry(error_id, e) == [name |-> error_id, text |-> repr(e)]
InternalError(error_id, e) ==
    schema_error("1", Desc("Internal server error: code {} {}",
                           <<error_id, repr(e)>>))
\* lines 92-106: the except clauses, in order
Except(st, w, e) ==
    IF IsBBJException(e)
    THEN [st EXCEPT !.response[w] = exc_schema(e), !.pc[w] = "finally"]
    ELSE IF IsJSONDecodeError(e)
    THEN [st EXCEPT !.response[w] = schema_error("0", str(e)),
                    !.pc[w] = "finally"]
    ELSE [st EXCEPT
            !.response[w] = InternalError(uuid1(st.nextId), e),
            !.nextId = @ + 1,
            !.logs = IF st.req[w].faults.log # None THEN @
                     ELSE @ \cup {LogEntry(uuid1(st.nextId), e)},
            !.pc[w] = "finally"]

\* line 51: connection = sqlite3.connect(dbname)
Connect(st, w) ==
    IF st.req[w].faults.connect # None
    THEN Except(st, w, st.req[w].faults.connect)
    ELSE IF Handles \ st.open = {}
    THEN Except(st, w, PyError("OperationalError",
                               Desc("unable to open database file", <<>>)))
    ELSE [st EXCEPT !.connection[w] = Connection(First(Handles \ st.open)),
                    !.open = @ \cup {First(Handles \ st.open)},
                    !.pc[w] = "body"]

\* lines 52-106: the rest of the try block and the except clause it ends in
Served(st, w, out) ==
    IF out.exc # None THEN Except(st, w, out.exc)
    ELSE [st EXCEPT !.response[w] = schema_response(out.value, out.usermap),
                    !.pc[w] = "finally"]
Serve(st, w) ==
    Bind(TryBlock(st.req[w], st.users, st.threads, st.usermap[w]),
         LAMBDA out :
            Bind([st EXCEPT !.users = out.users, !.threads = out.threads,
                            !.usermap[w] = out.usermap,
                            !.calls[w] = out.calls,
                            !.handled[w] = out.handled,
                            !.args[w] = out.body],
                 LAMBDA st1 : Served(st1, w, out)))

\* lines 108-110: finally: connection.close(); return json.dumps(response).
\* The return discards an exception still in flight; an unbound `connection`
\* raises before the return is reached.
\* connection.close() at the end of the try block instead of in finally: it is
\* not reached once an exception was raised
connection_close_InTry(st, w) ==
    IF IsErrorEnvelope(st.response[w]) THEN st
    ELSE [st EXCEPT !.open = @ \ {st.connection[w].id}, !.closes[w] = @ + 1]
\* line 109: connection.close()
connection_close(st, w) ==
    [st EXCEPT !.open = @ \ {st.connection[w].id}, !.closes[w] = @ + 1]
Finally(st, w) ==
    IF st.connection[w] = Unbound
    THEN [st EXCEPT
            !.ret[w] = Escaped(PyError("UnboundLocalError",
                                       Desc("connection", <<>>))),
            !.pc[w] = "returned"]
    ELSE [connection_close(st, w) EXCEPT
            !.ret[w] = ReturnValue(json_dumps(st.response[w])),
            !.pc[w] = "returned"]

\* The call is over: its frame, and with it the locals, is gone, and the
\* worker waits for its next request.  The usermap slot belongs to the thread
\* and stays.
Leave(st, w) ==
    [st EXCEPT !.pc[w] = "idle", !.req[w] = None, !.response[w] = None,
               !.connection[w] = Unbound, !.ret[w] = None,
               !.calls[w] = <<>>, !.handled[w] = None, !.closes[w] = 0,
               !.args[w] = None]

\* the whole of wrapper, entry to return
Wrapper(st, w, r) ==
    Bind(Enter(st, w, r), LAMBDA entered :
        Bind(Connect(entered, w), LAMBDA connected :
            Bind(IF connected.pc[w] = "body" THEN Serve(connected, w)
                 ELSE connected,
                 LAMBDA served : Finally(served, w))))
\* ------------------------------------------------------------------ inputs
Alice == S("alice")
AliceHash == S("ab")
\* a body that carries every key some endpoint requires; its first key is
\* sent as "Body"
FullArgs ==
    Dict(<< <<Str("body", {1}), S("hello")>>, <<S("title"), S("T")>>,
            <<S("thread_id"), ThreadIdPool[1]>>, <<S("post_id"), Num(0)>>,
            <<S("value"), Bool(FALSE)>> >>)
RegisterArgs ==
    Dict(<< <<S("user_name"), Alice>>, <<S("auth_hash"), AliceHash>> >>)
QuipArgs == Dict(<< <<S("quip"), S("hi")>> >>)
LookupArgs ==
    Dict(<< <<S("user"), Alice>>, <<S("target_user"), Alice>>,
            <<S("target_hash"), Str("ab", {1})>> >>)
PartialArgs == Dict(<< <<S("thread_id"), ThreadIdPool[1]>> >>)
NoBody == Bytes("empty", None)
BadUtf8 == Bytes("bad_utf8", None)
BadJson == Bytes("bad_json", None)
Json(value) == Bytes("json", value)

\* the arguments that satisfy an endpoint
ValidArgs(endpoint) ==
    CASE endpoint = "user_register" -> RegisterArgs
      [] endpoint = "user_update" -> QuipArgs
      [] endpoint \in {"user_get", "user_is_registered", "check_auth",
                       "is_admin"} -> LookupArgs
      [] OTHER -> FullArgs
BodiesFor(endpoint) ==
    {NoBody, BadUtf8, BadJson, Json(List(<<Num(1)>>)), Json(PartialArgs),
     Json(ValidArgs(endpoint))}

\* the User and Auth headers: absent, empty, one without the other, an
\* unregistered name, a wrong key, the key in either letter case, and the
\* anonymous account named with its key
HeaderPairs ==
    {<<None, None>>, <<S(""), S("")>>,
     <<Alice, None>>, <<None, AliceHash>>, <<Alice, S("")>>,
     <<S("bob"), AliceHash>>, <<Alice, S("zz")>>,
     <<Alice, AliceHash>>, <<Alice, Str("ab", {1, 2})>>,
     <<S("anonymous"), AnonHash>>}

NoFaults == Faults(None, None, None)
Locked == PyError("OperationalError", Desc("database is locked", <<>>))
Missing == PyError("KeyError", Desc("'created'", <<>>))
Gone == BBJParameterError(Desc("Thread does not exist", <<>>))
NoLogDir == PyError("FileNotFoundError", Desc("logs/exceptions/", <<>>))
FaultSet ==
    {Faults(Locked, None, None), Faults(Locked, None, NoLogDir),
     Faults(None, Locked, None), Faults(None, Gone, None),
     Faults(None, Locked, NoLogDir)}

FaultedBodies == {Json(FullArgs), Json(QuipArgs), BadJson}
FaultedHeaders == {<<None, None>>, <<Alice, AliceHash>>, <<Alice, None>>}
Requests ==
    UNION {
        {Request(e, "POST", b, h[1], h[2], NoFaults) :
            b \in BodiesFor(e), h \in HeaderPairs}
        \cup {Request(e, "POST", b, h[1], h[2], f) :
            b \in BodiesFor(e) \cap FaultedBodies, h \in FaultedHeaders,
            f \in FaultSet}
        \cup {Request(e, "GET", BadJson, None, None, NoFaults)} :
        e \in Endpoints}

\* the requests two workers serve side by side
ConcRequests ==
    {Request("get_me", "POST", b, None, None, f) :
        <<b, f>> \in {NoBody, BadJson} \X
            {NoFaults, Faults(Locked, None, None)}}
    \cup {Request("thread_reply", "POST", Json(FullArgs), None, None, f) :
            f \in {NoFaults, Faults(None, Locked, None),
                   Faults(None, Missing, None),
                   Faults(None, Missing, NoLogDir)}}

\* --------------------------------------------------------------- the model
\* what data.sqlite holds when the process starts
StoredUsers ==
    {<<>>, <<Row(UserIdPool[1], S("anonymous"), AnonHash, S(""), FALSE)>>}

Init ==
    /\ started = FALSE
    /\ allow_anon \in BOOLEAN
    /\ anon = Unset
    /\ users \in StoredUsers
    /\ threads = <<>>
    /\ logs = {}
    /\ nextId = 0
    /\ open = {}
    /\ pc = [w \in Workers |-> "idle"]
    /\ req = [w \in Workers |-> None]
    /\ connection = [w \in Workers |-> Unbound]
    /\ response = [w \in Workers |-> None]
    /\ ret = [w \in Workers |-> None]
    /\ calls = [w \in Workers |-> <<>>]
    /\ handled = [w \in Workers |-> None]
    /\ usermap = [w \in Workers |-> Unset]
    /\ closes = [w \in Workers |-> 0]
    /\ now = 0
    /\ args = [w \in Workers |-> None]
    /\ seen = [w \in Workers |-> Unset]

\* run() without lines 551-555: db.anon is whatever the lookup gave, False
\* when no anonymous user is stored
Run_LookupOnly ==
    /\ ~started
    /\ anon' = (IF Truthy(user_resolve(users, S("anonymous")))
                THEN Object(RowOf(user_resolve(users, S("anonymous"))),
                            "db.anon")
                ELSE user_resolve(users, S("anonymous")))
    /\ started' = TRUE
    /\ UNCHANGED <<allow_anon, users, threads, logs, nextId, open, pc, req,
                   connection, response, ret, calls, handled, usermap, closes,
                   now, args, seen>>
\* run(): db.anon is the stored anonymous user, registered first when there
\* is none; then cherrypy.quickstart serves
Run ==
    /\ ~started
    /\ \E found \in {user_resolve(users, S("anonymous"))} :
          IF Truthy(found)
          THEN anon' = Object(RowOf(found), "db.anon") /\ users' = users
          ELSE \E made \in {db_user_register(users, threads, S("anonymous"),
                                              AnonHash)} :
                  /\ anon' = Object(RowOf(made.value), "db.anon")
                  /\ users' = made.users
    /\ started' = TRUE
    /\ UNCHANGED <<allow_anon, threads, logs, nextId, open, pc, req,
                   connection, response, ret, calls, handled, usermap, closes,
                   now, args, seen>>

InFlight == {w \in Workers : pc[w] \notin {"idle", "returned"}}
Posting == {"thread_create", "thread_reply"}
RECURSIVE PostsFrom(_, _)
PostsFrom(T, n) ==
    IF n = 0 THEN 0 ELSE Len(T[n].messages) + PostsFrom(T, n - 1)
Posts(T) == PostsFrom(T, Len(T))
\* the model admits a request while the ids and the board have room for it
Admit(r) ==
    /\ nextId < MaxIncidents
    /\ r.endpoint \in Posting =>
            Posts(threads)
                + Cardinality({w \in InFlight : req[w].endpoint \in Posting})
                < MaxPosts

\* one worker serves a request from entry to return
Handle(w, r) ==
    /\ started
    /\ pc[w] = "idle"
    /\ Admit(r)
    /\ \E st \in {Wrapper(Cur, w, r)} : Becomes(st)
    /\ UNCHANGED seen

\* the same, step by step, so that the workers interleave
Arrive(w, r) ==
    /\ started
    /\ pc[w] = "idle"
    /\ Admit(r)
    /\ \E st \in {Enter(Cur, w, r)} : Becomes(st)
    /\ UNCHANGED seen
Open(w) ==
    /\ pc[w] = "try"
    /\ \E st \in {Connect(Cur, w)} : st.nextId <= MaxIncidents /\ Becomes(st)
    /\ UNCHANGED seen
Work(w) ==
    /\ pc[w] = "body"
    /\ \E st \in {Serve(Cur, w)} : st.nextId <= MaxIncidents /\ Becomes(st)
    /\ UNCHANGED seen
Close(w) ==
    /\ pc[w] = "finally"
    /\ \E st \in {Finally(Cur, w)} : Becomes(st)
    /\ UNCHANGED seen
\* cherrypy has sent what wrapper returned (or its own error page)
Release(w) ==
    /\ pc[w] = "returned"
    /\ \E st \in {Leave(Cur, w)} : Becomes(st)
    /\ seen' = [seen EXCEPT ![w] = Unset]

Next ==
    \/ Run
    \/ \E r \in Requests : Handle(1, r)
    \/ Release(1)
Spec == Init /\ [][Next]_vars

NextConc ==
    \/ Run
    \/ \E w \in Workers, r \in ConcRequests : Arrive(w, r)
    \/ \E w \in Workers : Open(w)
    \/ \E w \in Workers : Work(w)
    \/ \E w \in Workers : Close(w)
    \/ \E w \in Workers : Release(w)
SpecConc == Init /\ [][NextConc]_vars

\* ---------------------------------------------------------------- the board
\* A board that already has users and a thread when the process starts, read
\* and moderated while time passes.
MaxTime == 2
Root == S("root")
RootHash == S("cd")
\* the id of a user whose row is no longer in the users table
GhostId == S("id_0")
BoardUsers ==
    <<Row(UserIdPool[1], S("anonymous"), AnonHash, S(""), FALSE),
      Row(UserIdPool[2], Alice, AliceHash, S(""), FALSE),
      Row(UserIdPool[3], Root, RootHash, S(""), TRUE)>>
\* a thread as it is stored once replies were made to it
Stored(id, title, messages) ==
    [Thread(id, messages[1].author, title, messages, 0) EXCEPT
        !.last_author = messages[Len(messages)].author,
        !.last_mod = messages[Len(messages)].created]
\* nothing; alice's thread with a reply made without identity headers; a
\* thread whose author is gone
Boards ==
    {<<>>,
     <<Stored(ThreadIdPool[1], S("T"),
              <<Message(UserIdPool[2], S("hello"), FALSE, 0),
                Message(UserIdPool[1], S("hi"), FALSE, 1)>>)>>,
     <<Stored(ThreadIdPool[1], S("T"),
              <<Message(GhostId, S("hello"), FALSE, 0)>>)>>}

InitBoard ==
    /\ started = FALSE
    /\ allow_anon = TRUE
    /\ anon = Unset
    /\ users = BoardUsers
    /\ threads \in Boards
    /\ logs = {}
    /\ nextId = 0
    /\ open = {}
    /\ pc = [w \in Workers |-> "idle"]
    /\ req = [w \in Workers |-> None]
    /\ connection = [w \in Workers |-> Unbound]
    /\ response = [w \in Workers |-> None]
    /\ ret = [w \in Workers |-> None]
    /\ calls = [w \in Workers |-> <<>>]
    /\ handled = [w \in Workers |-> None]
    /\ usermap = [w \in Workers |-> Unset]
    /\ closes = [w \in Workers |-> 0]
    /\ now = 1
    /\ args = [w \in Workers |-> None]
    /\ seen = [w \in Workers |-> Unset]

\* the arguments of the requests to the board
PostArgs(post_id) ==
    Dict(<< <<S("thread_id"), ThreadIdPool[1]>>, <<S("post_id"), Num(post_id)>>,
            <<S("body"), S("bye")>>, <<S("value"), Bool(TRUE)>> >>)
LoadArgs(op_only, format) ==
    Dict(<< <<Str("thread_id", {1}), ThreadIdPool[1]>>,
            <<S("op_only"), op_only>>, <<S("format"), format>>,
            <<S("time"), Num(0)>>,
            <<S("nested"), Dict(<< <<Str("key", {1}), S("v")>> >>)>> >>)
IndexArgs == Dict(<< <<S("include_op"), Bool(TRUE)>> >>)
PreviewArgs ==
    Dict(<< <<S("format"), S("sequential")>>, <<S("body"), S("hello")>> >>)
FieldArgs == Dict(<< <<S("key"), S("user_name")>>, <<S("value"), S("")>> >>)
FieldArgsWith(error) == SetItem(FieldArgs, S("error"), error)
Rejected == BBJUserError(S("Username may not be empty."))

BoardHeaders ==
    {<<None, None>>, <<Alice, AliceHash>>, <<Root, RootHash>>,
     <<S("anonymous"), AnonHash>>}
BoardBodies(endpoint) ==
    CASE endpoint \in {"get_me", "user_map"} -> {NoBody}
      [] endpoint = "thread_index" ->
            {NoBody, Json(IndexArgs), Json(List(<<Num(1)>>))}
      [] endpoint \in {"message_feed", "thread_load"} ->
            {Json(LoadArgs(None, None)), Json(LoadArgs(Bool(TRUE), None)),
             Json(LoadArgs(None, S("sequential"))),
             Json(LoadArgs(None, S("markdown")))}
      [] endpoint = "format_message" -> {Json(PreviewArgs)}
      [] endpoint = "set_thread_pin" ->
            {NoBody, Json(PartialArgs), Json(PostArgs(0))}
      [] endpoint = "db_validate" ->
            {Json(FieldArgs), Json(FieldArgsWith(Bool(FALSE))),
             Json(FieldArgsWith(Bool(TRUE)))}
      [] OTHER -> {Json(PostArgs(0)), Json(PostArgs(1))}
BoardFaults(endpoint) ==
    IF endpoint = "db_validate"
    THEN {NoFaults, Faults(None, Rejected, None), Faults(None, Locked, None)}
    ELSE {NoFaults}
BoardEndpoints ==
    ReadEndpoints
        \cup {"get_me", "edit_query", "edit_post", "set_post_raw",
              "delete_post"}
BoardRequests ==
    UNION {{Request(e, "POST", b, h[1], h[2], f) :
                b \in BoardBodies(e), h \in BoardHeaders,
                f \in BoardFaults(e)} : e \in BoardEndpoints}

\* one worker serves a request to the board from entry to return
Take(w, r) ==
    /\ started
    /\ pc[w] = "idle"
    /\ Admit(r)
    /\ \E st \in {Wrapper(Cur, w, r)} : Becomes(st)
    /\ seen' = [seen EXCEPT ![w] = usermap[w]]
\* time passes between two requests
Tick ==
    /\ started
    /\ \A w \in Workers : pc[w] = "idle"
    /\ now < MaxTime
    /\ now' = now + 1
    /\ UNCHANGED <<started, allow_anon, anon, users, threads, logs, nextId,
                   open, pc, req, connection, response, ret, calls, handled,
                   usermap, closes, args, seen>>

NextBoard ==
    \/ Run
    \/ \E r \in BoardRequests : Take(1, r)
    \/ Release(1)
    \/ Tick
SpecBoard == InitBoard /\ [][NextBoard]_vars

\* ---------------------------------------------------------- the properties
\* the wrapper has come to its end on worker w
Done(w) == pc[w] = "returned"
\* ... by returning a value to cherrypy
Answered(w) == Done(w) /\ ret[w].t = "return"
\* the envelope inside what it returned
AnswerOf(w) == ret[w].value.of
\* a header is present when it is sent with a non-empty value: lines 70 and 73
\* test the truthiness of what headers.get gave
Present(h) == Truthy(h)
ExactlyOnePresent(r) == Present(r.User) # Present(r.Auth)
\* there is no body, or the body is JSON text
BodyDecodes(r) == r.method # "POST" \/ r.body.kind \in {"empty", "json"}
EmptyBody(r) == r.method # "POST" \/ r.body.kind = "empty"
\* the principal is the anonymous account, whichever object stands for it
IsAnonAccount(user) == user # None /\ user.user_id = anon.user_id
Denied(message) == exc_schema(BBJUserError(message))

\* C1: every call of the wrapper ends by returning one serialized envelope;
\* no exception leaves it, whatever fails on the way (the connection, the
\* decoding, the identity check, the handler, the log file).
C1_OneEnvelopeNoEscape ==
    \A w \in Workers :
        Done(w) => /\ ret[w].t = "return"
                   /\ ret[w].value.t = "json"
                   /\ ret[w].value.of.t = "envelope"

\* C2: the description of an internal-error envelope is fixed text and the
\* correlation id: nothing else, so nothing of the exception, is put into it.
C2_DescriptionCarriesOnlyTheId ==
    \A w \in Workers :
        (Answered(w) /\ IsErrorEnvelope(AnswerOf(w))
            /\ AnswerOf(w).error.code = "1")
        => \A i \in DOMAIN AnswerOf(w).error.description.params :
                AnswerOf(w).error.description.params[i].t = "uuid"

\* C3: a non-empty body that does not decode, be it bytes that are not UTF-8
\* or text that is not JSON, is answered with code 0 and never with code 1.
C3_UndecodableIsMalformedInput ==
    \A w \in Workers :
        (Answered(w) /\ req[w].method = "POST"
            /\ req[w].body.kind \in {"bad_utf8", "bad_json"})
        => /\ IsErrorEnvelope(AnswerOf(w))
           /\ AnswerOf(w).error.code = "0"

\* C4
AuthHeaderMismatch ==
    exc_schema(BBJParameterError(S("User or Auth was given without the other.")))
\* C4, as stated: a request with exactly one of User and Auth present is
\* answered with the header-mismatch failure, on every endpoint and with
\* every body, undecodable ones included.
C4_MismatchWhateverTheBody ==
    \A w \in Workers :
        (Answered(w) /\ ExactlyOnePresent(req[w]))
        => AnswerOf(w) = AuthHeaderMismatch
\* C4, amended: a request with exactly one of User and Auth present whose
\* body is empty or decodes is answered, whenever the wrapper returns, with
\* the header-mismatch failure, on every endpoint, and its handler never runs.
C4_MismatchWhenBodyDecodes ==
    \A w \in Workers :
        (Answered(w) /\ ExactlyOnePresent(req[w]) /\ BodyDecodes(req[w]))
        => /\ AnswerOf(w) = AuthHeaderMismatch
           /\ handled[w] = None
           /\ calls[w] = <<>>
\* C4, the case: an Auth header without a User header on a decoded JSON body
C4_Witness ==
    \E w \in Workers :
        /\ Answered(w)
        /\ req[w].User = None /\ Present(req[w].Auth)
        /\ req[w].method = "POST" /\ req[w].body.kind = "json"
        /\ AnswerOf(w) = AuthHeaderMismatch

\* C5: what the header pair r.User, r.Auth decides for a request that got as
\* far as the identity check, given the users table U it was checked against:
\* the answer it got, the principal its handler ran with (None: the handler
\* did not run) and the persistence calls it made.
IdentityDecision(r, U, U2, T, T2, outcome, principal, made) ==
    LET hits == Hits(U, r.User)
        stopped == principal = None /\ made = <<>> /\ U2 = U /\ T2 = T
    IN  CASE ~Present(r.User) /\ ~Present(r.Auth) -> principal = anon
          [] ExactlyOnePresent(r) -> stopped
          [] hits = {} ->
                /\ outcome.value.of =
                     Denied(Desc("User %s is not registered", <<r.User>>))
                /\ stopped
          [] lower(r.Auth) # lower(U[First(hits)].auth_hash) ->
                /\ outcome.value.of =
                     schema_error("5", S("Invalid authorization key for user."))
                /\ stopped
          [] OTHER ->
                /\ principal # None
                /\ RowOf(principal) = U[First(hits)]
\* C5: identity resolution decides on the header pair alone: both absent, the
\* handler runs as the anonymous principal; both present and the name not
\* registered, UnknownUser; registered and Auth differing from the stored
\* hash ignoring letter case, InvalidCredential; equal ignoring letter case,
\* the handler runs as that user.  In the failure cases the handler is not run.
C5_IdentityIsDecidedByHeaders ==
    [][\A w \in Workers :
        (pc[w] = "idle" /\ pc'[w] = "returned" /\ ret'[w].t = "return"
            /\ BodyDecodes(req'[w]))
        => IdentityDecision(req'[w], users, users', threads, threads',
                            ret'[w], handled'[w], calls'[w])]_vars
\* C5, the case: the registered user's key sent in upper case, and the handler
\* ran as that user
C5_Witness ==
    \E w \in Workers :
        /\ Answered(w)
        /\ req[w].User = Alice /\ req[w].Auth = Str("ab", {1, 2})
        /\ handled[w] # None
        /\ handled[w].user_name = Alice
        /\ handled[w].auth_hash = AliceHash

\* C6
\* the requests that hold a connection: opened and not yet at the return
Holding ==
    {w \in Workers : pc[w] \in {"body", "finally"} /\ connection[w] # Unbound}
\* C6: a request that opened a connection has closed it exactly once when its
\* response is returned, however the request ended; the open connections are
\* those of the requests still in the try block, one each, none shared.
C6_ConnectionClosedOnce ==
    /\ \A w \in Workers :
          Done(w) => closes[w] = (IF connection[w] = Unbound THEN 0 ELSE 1)
    /\ \A w \in Workers : pc[w] # "returned" => closes[w] = 0
    /\ open = {connection[w].id : w \in Holding}
    /\ \A v, w \in Holding : v # w => connection[v] # connection[w]
\* C6, the case: one request has returned an internal-error envelope and
\* closed its connection once, while another still holds its own
C6_Witness ==
    \E v, w \in Workers :
        /\ Answered(v)
        /\ AnswerOf(v).error # None /\ AnswerOf(v).error.code = "1"
        /\ closes[v] = 1
        /\ w \in Holding

\* C7
Required(endpoint) ==
    CASE endpoint = "user_register" -> <<S("user_name"), S("auth_hash")>>
      [] endpoint = "user_get" -> <<S("user")>>
      [] endpoint = "user_is_registered" -> <<S("target_user")>>
      [] endpoint = "check_auth" -> <<S("target_user"), S("target_hash")>>
      [] endpoint = "is_admin" -> <<S("target_user")>>
      [] endpoint = "thread_create" -> <<S("body"), S("title")>>
      [] endpoint = "thread_reply" -> <<S("thread_id"), S("body")>>
      [] endpoint = "edit_post" -> <<S("body"), S("thread_id"), S("post_id")>>
      [] endpoint = "delete_post" -> <<S("thread_id"), S("post_id")>>
      [] endpoint = "set_post_raw" -> <<S("value"), S("thread_id"), S("post_id")>>
      [] endpoint = "edit_query" -> <<S("thread_id"), S("post_id")>>
      [] endpoint = "message_feed" -> <<S("time")>>
      [] endpoint = "thread_load" -> <<S("thread_id")>>
      [] endpoint = "format_message" -> <<S("format"), S("body")>>
      [] endpoint = "set_thread_pin" -> <<S("thread_id"), S("value")>>
      [] endpoint = "db_validate" -> <<S("key"), S("value")>>
      [] OTHER -> <<>>
IsMissingParameter(envelope, endpoint) ==
    /\ IsErrorEnvelope(envelope)
    /\ envelope.error.code = "BBJParameterError"
    /\ envelope.error.description.t = "text"
    /\ \E i \in DOMAIN envelope.error.description.params :
          /\ envelope.error.description.params[i].t = "joined"
          /\ envelope.error.description.params[i].parts = Required(endpoint)
\* the text the anonymous check of an endpoint refuses db.anon with; None
\* where it lets db.anon through
AnonRefusal(endpoint) ==
    CASE endpoint \in {"edit_post", "set_post_raw", "edit_query"} ->
            S("Anons cannot edit messages.")
      [] endpoint = "delete_post" -> S("Anons cannot delete messages.")
      [] endpoint \in {"thread_create", "thread_reply"} ->
            (IF allow_anon THEN None ELSE AnonDisabled)
      [] OTHER -> None
\* C7, as stated: on an endpoint with required arguments an empty body is
\* answered with MissingParameter naming every required key, whoever the
\* principal is and whatever allow_anon is.
C7_EmptyBodyIsMissingParameter ==
    \A w \in Workers :
        (Answered(w) /\ handled[w] # None /\ EmptyBody(req[w])
            /\ Required(req[w].endpoint) # <<>>)
        => IsMissingParameter(AnswerOf(w), req[w].endpoint)
\* C7, amended: on an endpoint with required arguments an empty body is
\* answered with MissingParameter naming every required key, unless the
\* endpoint's anonymous check refuses the request first (a request without
\* identity headers to edit_query, edit_post, set_post_raw or delete_post, or
\* to thread_create or thread_reply when allow_anon is false): that request
\* is answered with PermissionDenied.
C7_EmptyBodyAfterAnonCheck ==
    \A w \in Workers :
        (Answered(w) /\ handled[w] # None /\ EmptyBody(req[w])
            /\ Required(req[w].endpoint) # <<>>)
        => /\ calls[w] = <<>>
           /\ IF handled[w] = anon /\ AnonRefusal(req[w].endpoint) # None
              THEN AnswerOf(w) = Denied(AnonRefusal(req[w].endpoint))
              ELSE IsMissingParameter(AnswerOf(w), req[w].endpoint)
\* C7, the case: a registered user sends thread_create without a body and is
\* told both keys
C7_Witness ==
    \E w \in Workers :
        /\ Answered(w)
        /\ req[w].endpoint = "thread_create" /\ req[w].body = NoBody
        /\ handled[w] # None /\ handled[w].user_name = Alice
        /\ IsMissingParameter(AnswerOf(w), "thread_create")

\* C8: with allow_anon false, thread_create and thread_reply made as the
\* anonymous principal are answered with PermissionDenied and call neither
\* db.thread_create nor db.thread_reply; with allow_anon true the anonymous
\* check does not refuse them.
C8_AnonGate ==
    \A w \in Workers :
        (Answered(w) /\ IsAnonAccount(handled[w])
            /\ req[w].endpoint \in {"thread_create", "thread_reply"})
        => IF allow_anon
           THEN AnswerOf(w) # Denied(AnonDisabled)
           ELSE /\ AnswerOf(w) = Denied(AnonDisabled)
                /\ calls[w] = <<>>

\* C9: when the principal is the anonymous account, from absent headers or
\* from headers that name it with its hash, edit_query, edit_post,
\* set_post_raw and delete_post answer PermissionDenied with the text for
\* anonymous users and call no db.message_edit_* or db.message_delete.
C9_AnonNeverEdits ==
    \A w \in Workers :
        (Answered(w) /\ IsAnonAccount(handled[w])
            /\ req[w].endpoint \in
                 {"edit_query", "edit_post", "set_post_raw", "delete_post"})
        => /\ AnswerOf(w) = Denied(AnonRefusal(req[w].endpoint))
           /\ calls[w] = <<>>

\* C10: once run() has bound db.anon, the stored anonymous row is never
\* changed: db.user_update is not called for the anonymous account and
\* db.anon equals the stored row.
C10_AnonRecordFrozen ==
    started =>
        /\ \E i \in DOMAIN users : users[i] = RowOf(anon)
        /\ \A w \in Workers : \A i \in DOMAIN calls[w] :
              ~(calls[w][i].op = "user_update"
                    /\ calls[w][i].by = anon.user_id)

\* C15: db.anon is bound to a stored user named anonymous by the time the
\* server takes its first request; startup binds it once, registering the
\* anonymous user only when none is stored and leaving the users table alone
\* otherwise; no request is in the wrapper, and no handler has run, while
\* db.anon is unset.
C15_AnonBoundBeforeServing ==
    /\ [](/\ started => (anon.t = "user" /\ anon.obj = "db.anon")
          /\ ~started =>
                /\ anon = Unset
                /\ \A w \in Workers : pc[w] = "idle" /\ handled[w] = None)
    /\ [][/\ started => (started' /\ anon' = anon)
          /\ (~started /\ started') =>
                /\ anon'.t = "user"
                /\ anon'.user_name = S("anonymous")
                /\ \E i \in DOMAIN users' : users'[i] = RowOf(anon')
                /\ IF Hits(users, S("anonymous")) # {}
                   THEN users' = users
                   ELSE /\ Len(users') = Len(users) + 1
                        /\ SubSeq(users', 1, Len(users)) = users
                        /\ Hits(users', S("anonymous")) = {Len(users')}]_vars
\* C15, the case: a request without identity headers was handled as db.anon,
\* the user that startup found or registered
C15_Witness ==
    \E w \in Workers :
        /\ Answered(w)
        /\ ~Present(req[w].User) /\ ~Present(req[w].Auth)
        /\ handled[w] = anon
        /\ Cardinality(Hits(users, S("anonymous"))) = 1

\* C16
\* the decoded body of the request: non-empty JSON text that json.loads took
DecodedBody(r) == r.method = "POST" /\ r.body.kind = "json"
\* the required keys the decoded value does not carry, letter case aside
AbsentKeys(value, endpoint) ==
    IF isinstance_dict(value)
    THEN {i \in DOMAIN Required(endpoint) :
            Required(endpoint)[i] \notin {lower(k) : k \in Keys(value)}}
    ELSE DOMAIN Required(endpoint)
NamesAbsentKey(envelope, value, endpoint) ==
    \E i \in DOMAIN envelope.error.description.params :
        \E k \in AbsentKeys(value, endpoint) :
            envelope.error.description.params[i] = Required(endpoint)[k]
\* C16: a decoded, non-empty body that lacks a required key of the endpoint,
\* be it a mapping or any other JSON value, is answered with MissingParameter
\* naming an absent key and every required key, and never with InternalError.
\* Stated for the requests the endpoint's anonymous check lets through.
C16_MissingKeyIsMissingParameter ==
    \A w \in Workers :
        (Answered(w) /\ handled[w] # None /\ DecodedBody(req[w])
            /\ Truthy(req[w].body.value)
            /\ AbsentKeys(req[w].body.value, req[w].endpoint) # {}
            /\ ~(handled[w] = anon /\ AnonRefusal(req[w].endpoint) # None))
        => /\ IsMissingParameter(AnswerOf(w), req[w].endpoint)
           /\ NamesAbsentKey(AnswerOf(w), req[w].body.value, req[w].endpoint)

\* C17
IsInternalError(envelope) ==
    IsErrorEnvelope(envelope) /\ envelope.error.code = "1"
\* the correlation id in the description of an internal-error envelope
CorrelationId(envelope) == envelope.error.description.params[1]
\* C17: a request answered with InternalError has written exactly one log
\* entry, named by the correlation id in the answer, and a request answered
\* with anything else has written none.
C17_InternalErrorIffLogged ==
    [][\A w \in Workers :
        (pc[w] = "idle" /\ pc'[w] = "returned" /\ ret'[w].t = "return")
        => IF IsInternalError(ret'[w].value.of)
           THEN /\ Cardinality(logs' \ logs) = 1
                /\ \A entry \in logs' \ logs :
                      entry.name = CorrelationId(ret'[w].value.of)
                /\ logs \subseteq logs'
           ELSE logs' = logs]_vars

\* C11
AuthorEndpoints ==
    {"thread_index", "message_feed", "thread_create", "thread_reply",
     "thread_load", "edit_query", "edit_post"}
\* the author and last_author ids in a payload
MessageAuthors(messages) == {messages[i].author : i \in DOMAIN messages}
ThreadAuthors(thread) ==
    {thread.author, thread.last_author} \cup MessageAuthors(thread.messages)
AuthorsIn(data) ==
    CASE data.t = "message" -> {data.author}
      [] data.t = "thread" -> ThreadAuthors(data)
      [] data.t = "list" ->
            UNION {ThreadAuthors(data.items[i]) : i \in DOMAIN data.items}
      [] data.t = "feed" ->
            MessageAuthors(data.messages)
                \cup UNION {ThreadAuthors(data.threads[i]) :
                              i \in DOMAIN data.threads}
      [] OTHER -> {}
EmptyPayload(data) ==
    CASE data.t = "list" -> data.items = <<>>
      [] data.t = "feed" -> data.messages = <<>> /\ data.threads = <<>>
      [] OTHER -> FALSE
\* C11: a success envelope of thread_index, message_feed, thread_create,
\* thread_reply, thread_load, edit_query or edit_post has, in its users map,
\* an entry for every author and last_author id in its payload, and an
\* empty users map when the payload is empty.
C11_UsersCoverAuthors ==
    \A w \in Workers :
        (Answered(w) /\ IsSuccessEnvelope(AnswerOf(w))
            /\ req[w].endpoint \in AuthorEndpoints)
        => /\ AuthorsIn(AnswerOf(w).data) \subseteq DOMAIN AnswerOf(w).users
           /\ EmptyPayload(AnswerOf(w).data)
                => DOMAIN AnswerOf(w).users = {}

\* C12
\* the requests to read the board that name a stored thread (or none) and a
\* formatter that exists (or none), served while the persistence layer works
Readable(r, T) ==
    /\ r.faults = NoFaults
    /\ \/ r.endpoint = "thread_index"
       \/ /\ r.endpoint = "thread_load"
          /\ DecodedBody(r) /\ isinstance_dict(r.body.value)
          /\ ThreadHits(T, Get(LowerKeys(r.body.value), S("thread_id"))) # {}
          /\ Get(LowerKeys(r.body.value), S("format"))
                \in {None, S("sequential")}
\* C12: a request to read the board that succeeds but for the enrichment is
\* answered with its success envelope also when a referenced author or
\* last_author has no user record; the users map has no entry, or an empty
\* one, for that id.
C12_EnrichmentNeverFails ==
    \A w \in Workers :
        (Answered(w) /\ handled[w] # None /\ Readable(req[w], threads))
        => /\ IsSuccessEnvelope(AnswerOf(w))
           /\ \A user_id \in
                    DOMAIN AnswerOf(w).users \cap Unknown(users, {GhostId}) :
                 AnswerOf(w).users[user_id] = None

\* C13
\* the kinds of PermissionDenied and of MissingParameter
KindOf(e) == exc_schema(e).error.code
PinCalls(w) ==
    {i \in DOMAIN calls[w] : calls[w][i].op = "set_thread_pin"}
\* C13: set_thread_pin made by a principal that is not an admin calls no
\* db.set_thread_pin and is answered with a failure whose kind is neither
\* that of PermissionDenied nor that of MissingParameter; made by an admin
\* with thread_id and value it calls db.set_thread_pin exactly once.
C13_PinIsAdminOnly ==
    \A w \in Workers :
        (Answered(w) /\ handled[w] # None
            /\ req[w].endpoint = "set_thread_pin")
        => IF ~handled[w].is_admin
           THEN /\ PinCalls(w) = {}
                /\ IsErrorEnvelope(AnswerOf(w))
                /\ AnswerOf(w).error.code
                     \notin {KindOf(BBJUserError(None)),
                             KindOf(BBJParameterError(None))}
           ELSE (DecodedBody(req[w])
                    /\ AbsentKeys(req[w].body.value, "set_thread_pin") = {})
                => Cardinality(PinCalls(w)) = 1

\* C14
Mutations == {"edit_query", "edit_post", "set_post_raw", "delete_post"}
\* the stored message a request to edit or delete names, None when it names
\* none
Target(r, T) ==
    IF ~(DecodedBody(r) /\ isinstance_dict(r.body.value)) THEN None
    ELSE Bind(LowerKeys(r.body.value), LAMBDA body :
            IF ThreadHits(T, Get(body, S("thread_id"))) = {}
                \/ Get(body, S("post_id")).t # "int"
            THEN None
            ELSE Bind(T[First(ThreadHits(T, Get(body, S("thread_id"))))],
                      LAMBDA thread :
                        IF Get(body, S("post_id")).n + 1
                                \in DOMAIN thread.messages
                        THEN thread.messages[Get(body, S("post_id")).n + 1]
                        ELSE None))
TooOld == Desc("message is too old to edit (older than 24hrs)", <<>>)
\* the decision of the specification's section 4.4 for principal, message and
\* time, against the answer the request got
EditAuthorization(endpoint, principal, message, time, answer) ==
    IF IsAnonAccount(principal)
    THEN answer = Denied(AnonRefusal(endpoint))
    ELSE IF principal.is_admin THEN IsSuccessEnvelope(answer)
    ELSE IF message.author = principal.user_id
            /\ time - message.created <= EditWindow
    THEN IsSuccessEnvelope(answer)
    ELSE /\ IsErrorEnvelope(answer)
         /\ answer.error.code = KindOf(BBJUserError(None))
         /\ message.author = principal.user_id
                => answer.error.description = TooOld
\* C14: edit_query, edit_post, set_post_raw and delete_post decide alike: the
\* anonymous principal is refused with the text for anonymous users; an admin
\* is allowed on any message; anyone else is allowed on a message of their
\* own inside the editable window, and refused with PermissionDenied
\* otherwise, with the text about the window when the message is their own.
C14_EditAuthorization ==
    [][\A w \in Workers :
        (pc[w] = "idle" /\ pc'[w] = "returned" /\ ret'[w].t = "return"
            /\ handled'[w] # None /\ req'[w].endpoint \in Mutations
            /\ req'[w].faults = NoFaults
            /\ AbsentKeys(req'[w].body.value, req'[w].endpoint) = {}
            /\ Target(req'[w], threads) # None)
        => EditAuthorization(req'[w].endpoint, handled'[w],
                             Target(req'[w], threads), now,
                             ret'[w].value.of)]_vars

\* C18
\* the value the last of the sent keys that lower-case to `key` carries
LastSent(sent, key) ==
    sent.items[CHOOSE i \in DOMAIN sent.items :
                /\ lower(sent.items[i][1]) = key
                /\ \A j \in DOMAIN sent.items :
                      lower(sent.items[j][1]) = key => j <= i][2]
\* C18: the handler of a request whose body decodes to a mapping is called
\* with a mapping whose keys are the sent top-level keys in lower case, each
\* with the value that was sent, nested mappings as they were; lower-casing
\* it again changes nothing; it passes validation exactly when the sent keys,
\* letter case aside, include the required ones; a body that decodes to
\* anything else reaches the handler as it was decoded.
C18_KeysLowered ==
    \A w \in Workers :
        (Answered(w) /\ handled[w] # None /\ DecodedBody(req[w]))
        => IF isinstance_dict(req[w].body.value)
           THEN /\ isinstance_dict(args[w])
                /\ Keys(args[w]) = {lower(k) : k \in Keys(req[w].body.value)}
                /\ \A k \in Keys(args[w]) :
                      /\ k.caps = {}
                      /\ Get(args[w], k) = LastSent(req[w].body.value, k)
                /\ LowerKeys(args[w]) = args[w]
                /\ Truthy(args[w]) =>
                      ((validate(args[w], Required(req[w].endpoint)) = None)
                        <=> AbsentKeys(req[w].body.value, req[w].endpoint)
                                = {})
           ELSE args[w] = req[w].body.value
\* C18, the case: thread_load sent with the key "Thread_id" and a nested
\* mapping with the key "Key" passed validation, and its handler got
\* thread_id in lower case and the nested mapping with "Key" as sent
C18_Witness ==
    \E w \in Workers :
        /\ Answered(w) /\ IsSuccessEnvelope(AnswerOf(w))
        /\ req[w].endpoint = "thread_load"
        /\ Str("thread_id", {1}) \in Keys(req[w].body.value)
        /\ S("thread_id") \notin Keys(req[w].body.value)
        /\ Get(args[w], S("thread_id")) = ThreadIdPool[1]
        /\ Keys(Get(args[w], S("nested"))) = {Str("key", {1})}

\* C19
\* C19: db_validate called with key and value answers the verdict
\* {bool: true, description: null} when the persistence layer accepts the
\* value; when it rejects the value, the verdict {bool: false, description:
\* the rejection's description} in a success envelope if `error` is absent or
\* falsy, and the rejection's own failure envelope if `error` is truthy.
\* bool is true exactly when description is null.
C19_ValidateVerdict ==
    \A w \in Workers :
        (Answered(w) /\ handled[w] # None /\ req[w].endpoint = "db_validate"
            /\ DecodedBody(req[w])
            /\ AbsentKeys(req[w].body.value, "db_validate") = {})
        => /\ req[w].faults.collab = None =>
                /\ IsSuccessEnvelope(AnswerOf(w))
                /\ AnswerOf(w).data = Verdict(Bool(TRUE), None)
           /\ (req[w].faults.collab # None
                    /\ IsBBJException(req[w].faults.collab)) =>
                IF Truthy(Get(args[w], S("error")))
                THEN AnswerOf(w) = exc_schema(req[w].faults.collab)
                ELSE /\ IsSuccessEnvelope(AnswerOf(w))
                     /\ AnswerOf(w).data =
                          Verdict(Bool(FALSE),
                                  req[w].faults.collab.description)
           /\ IsSuccessEnvelope(AnswerOf(w)) =>
                (Get(AnswerOf(w).data, S("bool")) = Bool(TRUE)
                    <=> Get(AnswerOf(w).data, S("description")) = None)
\* C19, the cases: a rejected value answered with the verdict when `error`
\* is false ...
C19_Witness ==
    \E w \in Workers :
        /\ Answered(w) /\ req[w].endpoint = "db_validate"
        /\ req[w].faults.collab = Rejected
        /\ Get(args[w], S("error")) = Bool(FALSE)
        /\ IsSuccessEnvelope(AnswerOf(w))
        /\ AnswerOf(w).data = Verdict(Bool(FALSE), Rejected.description)

\* C20
\* the endpoints whose handler binds a usermap
Binding ==
    {"user_map", "thread_index", "message_feed", "thread_create", "thread_load"}
\* the ids the handler of the request looked up, by the payload it returned
BoundBy(endpoint, data) ==
    IF endpoint = "user_map" THEN {data.items[i] : i \in DOMAIN data.items}
    ELSE IF endpoint \in Binding THEN AuthorsIn(data)
    ELSE {}
\* C20: the users map of a success envelope holds only entries its own
\* request's handler bound, each the record of the user as stored now,
\* whatever the worker's usermap slot held when the request came in; an
\* endpoint that binds no usermap answers with an empty users map.
C20_UsersMapIsOwn ==
    \A w \in Workers :
        (Answered(w) /\ IsSuccessEnvelope(AnswerOf(w)))
        => /\ DOMAIN AnswerOf(w).users
                \subseteq BoundBy(req[w].endpoint, AnswerOf(w).data)
           /\ \A user_id \in DOMAIN AnswerOf(w).users :
                 AnswerOf(w).users[user_id]
                    = user_externalize(user_resolve(users, user_id))
\* C20, the case: the worker's slot still held the entries of an earlier
\* request when a request to an endpoint that binds no usermap came in, and
\* the answer's users map is empty
C20_Witness ==
    \E w \in Workers :
        /\ Answered(w) /\ IsSuccessEnvelope(AnswerOf(w))
        /\ seen[w] # Unset /\ DOMAIN seen[w] # {}
        /\ req[w].endpoint \notin Binding
        /\ DOMAIN AnswerOf(w).users = {}
====
